---- MODULE Spec2Model ----
(***************************************************************************)
(* Model of perspective.go (package perspectivego): the Location codec,    *)
(* the line-oriented Puzzle text codec and the varint-framed World codec.  *)
(*                                                                         *)
(* A Go string is a sequence of one-character strings, so that splitting,  *)
(* joining, formatting and parsing are computed character by character.    *)
(* A byte slice is a sequence of numbers in 0..255.                        *)
(***************************************************************************)
EXTENDS Integers, Sequences, FiniteSets, TLC

(***************************************************************************)
(* Strings                                                                 *)
(***************************************************************************)

\* A nil pointer, and a result not there yet
Nil == [nil |-> TRUE]

Colon == ":"
Comma == ","
NL == "\n"
CR == "\r"
Hash == "#"

DigitChars == <<"0", "1", "2", "3", "4", "5", "6", "7", "8", "9">>

IsDigit(c) == \E d \in 1..10 : DigitChars[d] = c

DigitVal(c) == (CHOOSE d \in 1..10 : DigitChars[d] = c) - 1

\* s[from..] , the Go slice expression s[from-1:]
Drop(s, n) == SubSeq(s, n + 1, Len(s))

Take(s, n) == SubSeq(s, 1, n)

\* strings.IndexByte: the first position of c in s at or after i, 0 if absent
RECURSIVE IndexFrom(_, _, _)
IndexFrom(s, c, i) ==
  IF i > Len(s) THEN 0
  ELSE IF s[i] = c THEN i
  ELSE IndexFrom(s, c, i + 1)

IndexOf(s, c) == IndexFrom(s, c, 1)

\* strings.Split(s, sep) for a one-character sep: never empty, Split("") = [""]
RECURSIVE Split(_, _)
Split(s, c) ==
  LET i == IndexOf(s, c)
  IN IF i = 0 THEN <<s>> ELSE <<Take(s, i - 1)>> \o Split(Drop(s, i), c)

\* strings.Join(elems, sep): "" for no element
RECURSIVE Join(_, _)
Join(elems, c) ==
  IF Len(elems) = 0 THEN <<>>
  ELSE IF Len(elems) = 1 THEN elems[1]
  ELSE elems[1] \o <<c>> \o Join(Tail(elems), c)

\* strings.HasPrefix(s, "#")
HasPrefix(s, c) == Len(s) > 0 /\ s[1] = c

\* strconv.Itoa: base 10, a leading '-' for a negative number.  A negative
\* number is formatted from its own digits, so the least int32 is covered.
RECURSIVE ItoaNat(_)
ItoaNat(n) ==
  IF n < 10 THEN <<DigitChars[n + 1]>>
  ELSE ItoaNat(n \div 10) \o <<DigitChars[(n % 10) + 1]>>

RECURSIVE ItoaNeg(_)
ItoaNeg(n) ==
  LET d == (10 - (n % 10)) % 10
      q == (n + d) \div 10
  IN IF q = 0 THEN <<DigitChars[d + 1]>>
     ELSE ItoaNeg(q) \o <<DigitChars[d + 1]>>

Itoa(n) == IF n < 0 THEN <<"-">> \o ItoaNeg(n) ELSE ItoaNat(n)

\* strconv.Atoi: an optional sign, then one or more decimal digits; anything
\* else is an error.  The value is accumulated with the sign applied.
RECURSIVE AtoiDigits(_, _, _)
AtoiDigits(s, sign, acc) ==
  IF Len(s) = 0 THEN acc
  ELSE AtoiDigits(Tail(s), sign, acc * 10 + sign * DigitVal(s[1]))

Atoi(s) ==
  LET signed == Len(s) > 0 /\ s[1] \in {"-", "+"}
      digits == IF signed THEN Tail(s) ELSE s
      sign == IF signed /\ s[1] = "-" THEN -1 ELSE 1
  IN IF Len(digits) = 0 \/ \E i \in 1..Len(digits) : ~IsDigit(digits[i])
     THEN [err |-> TRUE, val |-> 0]
     ELSE [err |-> FALSE, val |-> AtoiDigits(digits, sign, 0)]

(***************************************************************************)
(* Location codec                                                          *)
(***************************************************************************)

\* The outcome of a call that can end the process: log.Fatal prints and
\* calls os.Exit(1); an index out of range is a run-time panic.
Exit == [kind |-> "exit"]
Panic == [kind |-> "panic"]
Ok(v) == [kind |-> "ok", val |-> v]

Location(w, x, y, z) == [W |-> w, X |-> x, Y |-> y, Z |-> z]

\* StringToInt: the integer, or the process exits in log.Fatal(err)
StringToInt(s) ==
  LET r == Atoi(s)
  IN IF r.err THEN Exit ELSE Ok(r.val)

\* The values of the model fit int32, where the conversion int32(v) is exact.
StringToLocation(s) ==
  LET parts == Split(s, Comma)
      n == Len(parts)
      used == IF n \in 1..4 THEN n ELSE 0
      ints == [i \in 1..used |-> StringToInt(parts[i])]
      v(i) == ints[i].val
  IN IF n \notin 1..4 THEN Exit
     ELSE IF \E i \in 1..n : ints[i].kind = "exit" THEN Exit
     ELSE CASE n = 4 -> Ok(Location(v(1), v(2), v(3), v(4)))
            [] n = 3 -> Ok(Location(0, v(1), v(2), v(3)))
            [] n = 2 -> Ok(Location(0, v(1), v(2), 0))
            [] n = 1 -> Ok(Location(0, v(1), 0, 0))

\* LocationToString without its four-field form
LocationToStringNoW(l) ==
  Itoa(l.X) \o <<Comma>> \o Itoa(l.Y) \o <<Comma>> \o Itoa(l.Z)

LocationToString(l) ==
  IF l.W = 0
  THEN Itoa(l.X) \o <<Comma>> \o Itoa(l.Y) \o <<Comma>> \o Itoa(l.Z)
  ELSE Itoa(l.W) \o <<Comma>> \o Itoa(l.X) \o <<Comma>> \o Itoa(l.Y)
       \o <<Comma>> \o Itoa(l.Z)

(***************************************************************************)
(* Puzzle text codec                                                       *)
(***************************************************************************)

TagDescription == <<"d", "e", "s", "c", "r", "i", "p", "t", "i", "o", "n">>
TagTarget == <<"t", "a", "r", "g", "e", "t">>
TagOutline == <<"o", "u", "t", "l", "i", "n", "e">>
TagSky == <<"s", "k", "y">>
TagBlock == <<"b", "l", "o", "c", "k">>
TagGoal == <<"g", "o", "a", "l">>
TagPortal == <<"p", "o", "r", "t", "a", "l">>
TagSphere == <<"s", "p", "h", "e", "r", "e">>
TagScenery == <<"s", "c", "e", "n", "e", "r", "y">>
TagDialog == <<"d", "i", "a", "l", "o", "g">>

Tags ==
  {TagDescription, TagTarget, TagOutline, TagSky, TagBlock, TagGoal,
   TagPortal, TagSphere, TagScenery, TagDialog}

Kinds == {"Sky", "Block", "Goal", "Portal", "Sphere", "Scenery", "Dialog"}

\* The locals of ReadPuzzle before the first line; also the Puzzle with
\* nothing set (a nil Outline, nil slices, "" and 0).
EmptyPuzzle ==
  [Outline |-> Nil, Sky |-> <<>>, Block |-> <<>>, Goal |-> <<>>,
   Portal |-> <<>>, Sphere |-> <<>>, Description |-> <<>>, Target |-> 0,
   Scenery |-> <<>>, Dialog |-> <<>>]

Outline(p) ==
  [Mesh |-> p[2], Colour |-> p[3], Texture |-> p[4], Material |-> p[5],
   Shader |-> p[6]]

Sky(p) ==
  [Name |-> p[2], Mesh |-> p[3], Colour |-> p[4], Texture |-> p[5],
   Material |-> p[6], Shader |-> p[7]]

\* Block, Goal, Sphere and Scenery have the same fields
Placed(p) ==
  [Name |-> p[2], Mesh |-> p[3], Colour |-> p[4],
   Location |-> StringToLocation(p[5]).val, Texture |-> p[6],
   Material |-> p[7], Shader |-> p[8]]

Portal(p) ==
  [Name |-> p[2], Mesh |-> p[3], Colour |-> p[4],
   Location |-> StringToLocation(p[5]).val,
   Link |-> StringToLocation(p[6]).val, Texture |-> p[7],
   Material |-> p[8], Shader |-> p[9]]

Dialog(p) ==
  [Name |-> p[2], Type |-> p[3], BackgroundColour |-> p[4],
   ForegroundColour |-> p[5], Author |-> p[6], Content |-> p[7],
   Location |-> StringToLocation(p[8]).val, Element |-> Split(p[9], Comma)]

\* parts[0] is p[1]: the highest index a case of the switch reads, plus one
Arity(tag) ==
  CASE tag = TagDescription -> 2
    [] tag = TagTarget -> 2
    [] tag = TagOutline -> 6
    [] tag = TagSky -> 7
    [] tag \in {TagBlock, TagGoal, TagSphere, TagScenery} -> 8
    [] tag \in {TagPortal, TagDialog} -> 9
    [] OTHER -> 1

\* The fields a case hands to StringToInt or StringToLocation
IntFields(tag) == IF tag = TagTarget THEN {2} ELSE {}

LocFields(tag) ==
  CASE tag \in {TagBlock, TagGoal, TagSphere, TagScenery} -> {5}
    [] tag = TagPortal -> {5, 6}
    [] tag = TagDialog -> {8}
    [] OTHER -> {}

\* Assign with "block = append(block, ...)" written "block = []*Block{...}"
AssignNoAppend(acc, p) ==
  CASE p[1] = TagDescription -> [acc EXCEPT !.Description = p[2]]
    [] p[1] = TagTarget -> [acc EXCEPT !.Target = StringToInt(p[2]).val]
    [] p[1] = TagOutline -> [acc EXCEPT !.Outline = Outline(p)]
    [] p[1] = TagSky -> [acc EXCEPT !.Sky = Append(@, Sky(p))]
    [] p[1] = TagBlock -> [acc EXCEPT !.Block = <<Placed(p)>>]
    [] p[1] = TagGoal -> [acc EXCEPT !.Goal = Append(@, Placed(p))]
    [] p[1] = TagPortal -> [acc EXCEPT !.Portal = Append(@, Portal(p))]
    [] p[1] = TagSphere -> [acc EXCEPT !.Sphere = Append(@, Placed(p))]
    [] p[1] = TagScenery -> [acc EXCEPT !.Scenery = Append(@, Placed(p))]
    [] p[1] = TagDialog -> [acc EXCEPT !.Dialog = Append(@, Dialog(p))]
    [] OTHER -> acc

\* The assignments of one case of the switch, all its fields being there
Assign(acc, p) ==
  CASE p[1] = TagDescription -> [acc EXCEPT !.Description = p[2]]
    [] p[1] = TagTarget -> [acc EXCEPT !.Target = StringToInt(p[2]).val]
    [] p[1] = TagOutline -> [acc EXCEPT !.Outline = Outline(p)]
    [] p[1] = TagSky -> [acc EXCEPT !.Sky = Append(@, Sky(p))]
    [] p[1] = TagBlock -> [acc EXCEPT !.Block = Append(@, Placed(p))]
    [] p[1] = TagGoal -> [acc EXCEPT !.Goal = Append(@, Placed(p))]
    [] p[1] = TagPortal -> [acc EXCEPT !.Portal = Append(@, Portal(p))]
    [] p[1] = TagSphere -> [acc EXCEPT !.Sphere = Append(@, Placed(p))]
    [] p[1] = TagScenery -> [acc EXCEPT !.Scenery = Append(@, Placed(p))]
    [] p[1] = TagDialog -> [acc EXCEPT !.Dialog = Append(@, Dialog(p))]
    [] OTHER -> acc

\* The default case of the switch: log.Println, and on to the next line
UnrecognizedFatal(acc, line) == {Exit}

Unrecognized(acc, line) == {Ok(acc)}

\* One iteration of the loop of ReadPuzzle on the line the scanner returned:
\* the set of its outcomes.  A blank line or a comment is skipped; an
\* unrecognized tag is logged.  Reading parts[i] beyond the fields the line
\* has panics; a field StringToInt or StringToLocation rejects ends the
\* process.  When a line has a rejected field and also lacks a later one, Go
\* does not order the index expression and the call, so either can happen.
LoopBody(acc, line) ==
  LET p == Split(line, Colon)
      tag == p[1]
      short == Len(p) < Arity(tag)
      fatal == \/ \E i \in IntFields(tag) :
                     i <= Len(p) /\ StringToInt(p[i]).kind = "exit"
               \/ \E i \in LocFields(tag) :
                     i <= Len(p) /\ StringToLocation(p[i]).kind = "exit"
  IN IF line = <<>> \/ HasPrefix(line, Hash) THEN {Ok(acc)}
     ELSE IF tag \notin Tags THEN Unrecognized(acc, line)
     ELSE IF ~short /\ ~fatal THEN {Ok(Assign(acc, p))}
     ELSE (IF short THEN {Panic} ELSE {})
          \cup (IF fatal THEN {Exit} ELSE {})

\* bufio.ScanLines on the unread data, all of it known: the token and what
\* is left, or no token at the end of the data.  One trailing \r is dropped.
DropCR(s) == IF Len(s) > 0 /\ s[Len(s)] = CR THEN Take(s, Len(s) - 1) ELSE s

ScanLines(data) ==
  LET i == IndexOf(data, NL)
  IN IF Len(data) = 0 THEN [more |-> FALSE, token |-> <<>>, rest |-> <<>>]
     ELSE IF i > 0
     THEN [more |-> TRUE, token |-> DropCR(Take(data, i - 1)),
           rest |-> Drop(data, i)]
     ELSE [more |-> TRUE, token |-> DropCR(data), rest |-> <<>>]

\* fmt.Fprintln(writer, s) hands s and a newline to the writer in one Write
Fprintln(s) == s \o <<NL>>

Fields(fs) == Join(fs, Colon)

PlacedRecord(tag, e) ==
  Fields(<<tag, e.Name, e.Mesh, e.Colour, LocationToString(e.Location),
           e.Texture, e.Material, e.Shader>>)

SkyRecord(s) ==
  Fields(<<TagSky, s.Name, s.Mesh, s.Colour, s.Texture, s.Material,
           s.Shader>>)

PortalRecord(e) ==
  Fields(<<TagPortal, e.Name, e.Mesh, e.Colour, LocationToString(e.Location),
           LocationToString(e.Link), e.Texture, e.Material, e.Shader>>)

DialogRecord(d) ==
  Fields(<<TagDialog, d.Name, d.Type, d.BackgroundColour, d.ForegroundColour,
           d.Author, d.Content, LocationToString(d.Location),
           Join(d.Element, Comma)>>)

OutlineRecord(o) ==
  Fields(<<TagOutline, o.Mesh, o.Colour, o.Texture, o.Material, o.Shader>>)

\* The records of the elements of one kind, in the order of the slice
SkyRecords(es) == [i \in 1..Len(es) |-> SkyRecord(es[i])]
PlacedRecords(tag, es) == [i \in 1..Len(es) |-> PlacedRecord(tag, es[i])]
PortalRecords(es) == [i \in 1..Len(es) |-> PortalRecord(es[i])]
DialogRecords(es) == [i \in 1..Len(es) |-> DialogRecord(es[i])]

\* WritePuzzleRecords with the description written before the sky
WritePuzzleRecordsDescriptionFirst(p) ==
  <<TagTarget \o <<Colon>> \o Itoa(p.Target)>>
  \o (IF p.Outline # Nil THEN <<OutlineRecord(p.Outline)>> ELSE <<>>)
  \o (IF p.Description # <<>>
      THEN <<TagDescription \o <<Colon>> \o p.Description>> ELSE <<>>)
  \o SkyRecords(p.Sky)
  \o PlacedRecords(TagBlock, p.Block)
  \o PlacedRecords(TagGoal, p.Goal)
  \o PortalRecords(p.Portal)
  \o PlacedRecords(TagSphere, p.Sphere)
  \o PlacedRecords(TagScenery, p.Scenery)
  \o DialogRecords(p.Dialog)

\* The strings WritePuzzle hands to fmt.Fprintln, in the order of its calls
WritePuzzleRecords(p) ==
  <<TagTarget \o <<Colon>> \o Itoa(p.Target)>>
  \o (IF p.Outline # Nil THEN <<OutlineRecord(p.Outline)>> ELSE <<>>)
  \o SkyRecords(p.Sky)
  \o (IF p.Description # <<>>
      THEN <<TagDescription \o <<Colon>> \o p.Description>> ELSE <<>>)
  \o PlacedRecords(TagBlock, p.Block)
  \o PlacedRecords(TagGoal, p.Goal)
  \o PortalRecords(p.Portal)
  \o PlacedRecords(TagSphere, p.Sphere)
  \o PlacedRecords(TagScenery, p.Scenery)
  \o DialogRecords(p.Dialog)

\* What reaches the writer when the writes from the k-th on fail (none of
\* them when k is 0)
RECURSIVE Written(_, _)
Written(records, k) ==
  IF Len(records) = 0 \/ k = 1 THEN <<>>
  ELSE Fprintln(records[1])
       \o Written(Tail(records), IF k = 0 THEN 0 ELSE k - 1)

\* WritePuzzle on a writer whose writes fail from the k-th on (a writer that
\* never fails when k is 0).  The result of fmt.Fprintln is dropped and the
\* function ends in "return nil".
WritePuzzle(p, k) ==
  LET records == WritePuzzleRecords(p)
  IN [emitted |-> records, out |-> Written(records, k),
      failed |-> k \in 1..Len(records), err |-> FALSE]

\* WritePuzzleFile: the error of os.OpenFile, or what WritePuzzle returns
WritePuzzleFile(opened, p, k) ==
  IF ~opened
  THEN [emitted |-> <<>>, out |-> <<>>, failed |-> FALSE, err |-> TRUE]
  ELSE WritePuzzle(p, k)

(***************************************************************************)
(* World framing codec                                                     *)
(***************************************************************************)

\* proto.EncodeVarint: seven bits a byte, least significant group first,
\* the high bit set on every byte but the last
RECURSIVE EncodeVarint(_)
EncodeVarint(x) ==
  IF x < 128 THEN <<x>>
  ELSE <<(x % 128) + 128>> \o EncodeVarint(x \div 128)

\* proto.DecodeVarint: the value and the number of bytes consumed; (0, 0)
\* when the buffer ends inside the varint or the varint is longer than the
\* ten bytes of a 64-bit value
RECURSIVE VarintFrom(_, _)
VarintFrom(buf, n) ==
  IF n > Len(buf) \/ n > 10 THEN [x |-> 0, n |-> 0]
  ELSE IF buf[n] < 128 THEN [x |-> buf[n], n |-> n]
  ELSE LET r == VarintFrom(buf, n + 1)
       IN IF r.n = 0 THEN r
          ELSE [x |-> (buf[n] % 128) + 128 * r.x, n |-> r.n]

DecodeVarint(buf) == VarintFrom(buf, 1)

\* A World is opaque to the codec: the model tells worlds apart by their
\* size and a seed, from which the bytes of the message follow.
World(size, seed) == [size |-> size, seed |-> seed]

Marshal(w) == [i \in 1..w.size |-> (i * w.seed + w.size) % 256]

Size(w) == Len(Marshal(w))

PayloadSizes == {0, 1, 2, 127, 128, 300}

Worlds == {World(0, 1)} \cup {World(n, sd) : n \in PayloadSizes \ {0}, sd \in {1, 3}}

\* proto.Unmarshal: the message the bytes encode, or an error
Unmarshal(b) ==
  IF \E w \in Worlds : Marshal(w) = b
  THEN [err |-> FALSE, world |-> CHOOSE w \in Worlds : Marshal(w) = b]
  ELSE [err |-> TRUE, world |-> Nil]

\* WriteWorld with the message written before its size
WriteWorldDataFirst(w, k) ==
  LET size == Size(w)
      data == Marshal(w)
  IN IF k <= 1 THEN [out |-> <<>>, err |-> TRUE]
     ELSE IF k = 2 THEN [out |-> data, err |-> TRUE]
     ELSE [out |-> data \o EncodeVarint(size), err |-> FALSE]

\* WriteWorld on a writer whose writes fail from the k-th on: what reaches
\* the writer and what is returned.  Each failing write returns at once.
WriteWorld(w, k) ==
  LET size == Size(w)
      data == Marshal(w)
  IN IF k <= 1 THEN [out |-> <<>>, err |-> TRUE]
     ELSE IF k = 2 THEN [out |-> EncodeVarint(size), err |-> TRUE]
     ELSE [out |-> EncodeVarint(size) \o data, err |-> FALSE]

\* WriteWorldFile: the error of os.OpenFile, or what WriteWorld returns
WriteWorldFile(opened, w, k) ==
  IF ~opened THEN [out |-> <<>>, err |-> TRUE] ELSE WriteWorld(w, k)

\* ReadWorldFile; ok says that os.Open and ioutil.ReadAll succeeded, buffer is
\* the contents read and cap the capacity of the slice ReadAll returned, whose
\* bytes beyond the contents are zero.  A slice expression whose upper bound
\* is beyond the capacity panics; one within the capacity but beyond the
\* length takes the bytes that follow the contents.
ReadWorldFile(ok, buffer, cap) ==
  LET d == DecodeVarint(buffer)
      s == d.n
      hi == s + d.x
      backing == buffer \o [i \in 1..(cap - Len(buffer)) |-> 0]
      u == Unmarshal(SubSeq(backing, s + 1, hi))
      res(kind, w, beyond) ==
        [kind |-> kind, world |-> w, beyond |-> beyond, io |-> ~ok]
  IN IF ~ok \/ s <= 0 THEN res("err", Nil, FALSE)
     ELSE IF hi > cap THEN res("panic", Nil, FALSE)
     ELSE IF u.err THEN res("err", Nil, hi > Len(buffer))
     ELSE res("ok", u.world, hi > Len(buffer))

(***************************************************************************)
(* Inputs                                                                  *)
(***************************************************************************)

MaxEntities == 2
MaxLines == 3
MaxSlack == 2
MaxFailAt == 1

SeqsUpTo(S, n) == UNION {[1..m -> S] : m \in 0..n}

Components == {-2147483647 - 1, -12, 0, 7, 10, 2147483647}

Locations == {Location(w, x, y, z) : w, x, y, z \in Components}

\* Strings handed to StringToLocation that LocationToString never writes
LocationInputs ==
  {<<>>, <<"a", ",", "2", ",", "3">>, <<"1", ",", "2">>, <<"7">>, <<"1", ",", "2", ",", "3">>, <<"5", ",", "1", ",", "2", ",", "3">>, <<"1", ",", "2", ",", "3", ",", "4", ",", "5">>, <<"1", ",", ",", "3">>,
   <<" ", "1", ",", "2", ",", "3">>, <<"+", "4", ",", "-", "0", ",", "0", "8">>, <<"-">>, <<"1", ",", "2", ",">>}

TextHi == <<"h", "i">>

Outline1 ==
  [Mesh |-> <<"b", "o", "x">>, Colour |-> <<"r", "e", "d">>, Texture |-> <<>>, Material |-> <<"m">>,
   Shader |-> <<"s">>]

Outline2 ==
  [Mesh |-> <<"d", "o", "m", "e">>, Colour |-> <<>>, Texture |-> <<"t">>, Material |-> <<"m">>,
   Shader |-> <<>>]

MkSky(name) ==
  [Name |-> name, Mesh |-> <<"m">>, Colour |-> <<"r", "e", "d">>, Texture |-> <<"t">>,
   Material |-> <<>>, Shader |-> <<"s">>]

MkPlaced(name, l) ==
  [Name |-> name, Mesh |-> <<"m">>, Colour |-> <<"r", "e", "d">>, Location |-> l,
   Texture |-> <<>>, Material |-> <<"m", "t">>, Shader |-> <<"s">>]

MkPortal(name, l, link) ==
  [Name |-> name, Mesh |-> <<"m">>, Colour |-> <<>>, Location |-> l,
   Link |-> link, Texture |-> <<"t">>, Material |-> <<"m", "t">>, Shader |-> <<"s">>]

MkDialog(name, l, elems) ==
  [Name |-> name, Type |-> <<"o", "k">>, BackgroundColour |-> <<"r", "e", "d">>,
   ForegroundColour |-> <<>>, Author |-> <<"a", "l">>, Content |-> <<"h", "i", " ", "y", "o">>,
   Location |-> l, Element |-> elems]

Loc1 == Location(0, 1, 2, 3)
Loc2 == Location(5, -1, 0, 10)

Entities(kind) ==
  CASE kind = "Sky" -> {MkSky(<<"k", "1">>), MkSky(<<"k", "2">>)}
    [] kind = "Block" -> {MkPlaced(<<"b", "1">>, Loc1), MkPlaced(<<"b", "2">>, Loc2)}
    [] kind = "Goal" -> {MkPlaced(<<"g", "1">>, Loc1)}
    [] kind = "Portal" ->
         {MkPortal(<<"p", "1">>, Loc1, Loc2), MkPortal(<<"p", "2">>, Loc2, Loc1)}
    [] kind = "Sphere" -> {MkPlaced(<<"s", "1">>, Loc2)}
    [] kind = "Scenery" -> {MkPlaced(<<"c", "1">>, Loc1)}
    [] kind = "Dialog" ->
         {MkDialog(<<"d", "1">>, Loc1, <<<<"e", "1">>, <<"e", "2">>>>), MkDialog(<<"d", "2">>, Loc2, <<>>)}

\* A puzzle as its caller builds it: entities appended one at a time
AddEntity(p, x) == [p EXCEPT ![x.kind] = Append(@, x.e)]

RECURSIVE Build(_, _)
Build(p, es) ==
  IF Len(es) = 0 THEN p ELSE Build(AddEntity(p, es[1]), Tail(es))

TaggedEntities ==
  UNION {{[kind |-> k, e |-> e] : e \in Entities(k)} : k \in Kinds}

Puzzles ==
  {Build([EmptyPuzzle EXCEPT !.Outline = o, !.Description = d,
                             !.Target = t], es) :
     o \in {Nil, Outline1}, d \in {<<>>, TextHi}, t \in {0, 3},
     es \in SeqsUpTo(TaggedEntities, MaxEntities)}

\* Lines a reader can supply to ReadPuzzle
WellFormedLines ==
  {<<"d", "e", "s", "c", "r", "i", "p", "t", "i", "o", "n", ":", "h", "i">>, <<"d", "e", "s", "c", "r", "i", "p", "t", "i", "o", "n", ":", "y", "o">>, <<"t", "a", "r", "g", "e", "t", ":", "3">>, <<"t", "a", "r", "g", "e", "t", ":", "1", "2">>,
   OutlineRecord(Outline1), OutlineRecord(Outline2),
   <<"s", "k", "y", ":", "k", "1", ":", "m", ":", "r", "e", "d", ":", "t", ":", ":", "s">>,
   <<"b", "l", "o", "c", "k", ":", "b", "1", ":", "m", ":", "r", "e", "d", ":", "1", ",", "2", ",", "3", ":", ":", "m", "t", ":", "s">>, <<"b", "l", "o", "c", "k", ":", "b", "2", ":", "m", ":", "r", "e", "d", ":", "7", ":", ":", "m", "t", ":", "s">>}

SkippedLines == {<<>>, <<"#", "b", "l", "o", "c", "k", ":", "b", "1">>, <<"f", "o", "o", "b", "a", "r", ":", "1", ":", "2">>}

MalformedLines ==
  {<<"b", "l", "o", "c", "k", ":", "b", "1">>, <<"d", "e", "s", "c", "r", "i", "p", "t", "i", "o", "n">>, <<"t", "a", "r", "g", "e", "t", ":", "x">>,
   <<"b", "l", "o", "c", "k", ":", "b", "1", ":", "m", ":", "r", "e", "d", ":", "a", ",", "2", ",", "3", ":", ":", "m", "t", ":", "s">>, <<"s", "p", "h", "e", "r", "e", ":", "s", "1", ":", "m", ":", "r", "e", "d", ":", ":", ":", "m", "t", ":", "s">>,
   <<"g", "o", "a", "l", ":", "g", "1", ":", "m", ":", "r", "e", "d", ":", "a", ",", "2", ",", "3">>, <<"s", "c", "e", "n", "e", "r", "y", ":", "c", "1", ":", "m", ":", "r", "e", "d", ":", "1", ",", "2", ",", "3", ",", "4", ",", "5", ":", ":", "m", "t", ":", "s">>}

LinePool == WellFormedLines \cup SkippedLines \cup MalformedLines

\* Files handed to ReadWorldFile that WriteWorld never writes
FileInputs ==
  {<<>>, <<0>>, <<0, 7>>, <<1>>, <<2, 9>>, <<5, 1>>, <<128>>, <<255, 255>>,
   <<128, 128, 128, 128, 128, 128, 128, 128, 128, 128, 1>>,
   EncodeVarint(2) \o Marshal(World(2, 3)) \o <<9, 9>>,
   EncodeVarint(2) \o Marshal(World(2, 1)) \o <<0>>,
   <<3>> \o Marshal(World(2, 1))}

(***************************************************************************)
(* State: the call made of each entry point, its arguments and its result. *)
(* The codecs share no state.  ReadPuzzle is followed line by line, since  *)
(* each iteration of its loop reads from the caller's reader.              *)
(***************************************************************************)

VARIABLES
  loc,          \* the Location given to LocationToString, or Nil
  locStr,       \* the string LocationToString returned, or the one given
  locRes,       \* what StringToLocation did with locStr, or Nil
  puzzle,       \* the Puzzle given to WritePuzzle, or Nil
  emitted,      \* the strings WritePuzzle handed to fmt.Fprintln
  stream,       \* the bytes that reached the writer
  writeFailed,  \* whether a Write of the writer returned an error
  wpRet,        \* what WritePuzzle returned: "none" yet, "nil" or "err"
  rp,           \* ReadPuzzle: "idle", "running", "returned", "exited", "panicked"
  rpSrc,        \* its reader: "written" (over stream) or "input"
  unread,       \* the bytes of the reader the scanner has not taken
  consumed,     \* the lines scanner.Text() returned so far
  acc,          \* the locals of ReadPuzzle
  rpRet,        \* what ReadPuzzle returned, or Nil
  readFailed,   \* whether the reader returned an error
  world,        \* the World given to WriteWorld, or Nil
  file,         \* the bytes of the file
  fileFailed,   \* whether a Write to the file returned an error
  wwRet,        \* what WriteWorld returned: "none" yet, "nil" or "err"
  rwRes         \* what ReadWorldFile did, or Nil

locVars == <<loc, locStr, locRes>>
wpVars == <<puzzle, emitted, stream, writeFailed, wpRet>>
rpVars == <<rp, rpSrc, unread, consumed, acc, rpRet, readFailed>>
wVars == <<world, file, fileFailed, wwRet, rwRes>>
vars == <<locVars, wpVars, rpVars, wVars>>

Init ==
  /\ loc = Nil /\ locStr = <<>> /\ locRes = Nil
  /\ puzzle = Nil /\ emitted = <<>> /\ stream = <<>>
  /\ writeFailed = FALSE /\ wpRet = "none"
  /\ rp = "idle" /\ rpSrc = "input" /\ unread = <<>> /\ consumed = <<>>
  /\ acc = EmptyPuzzle /\ rpRet = Nil /\ readFailed = FALSE
  /\ world = Nil /\ file = <<>> /\ fileFailed = FALSE /\ wwRet = "none"
  /\ rwRes = Nil

\* Each run of the model follows one call, or a write and the read of what
\* it wrote; Fresh says that no call was made yet
Fresh ==
  /\ loc = Nil /\ locRes = Nil
  /\ wpRet = "none" /\ rp = "idle"
  /\ wwRet = "none" /\ rwRes = Nil

(***************************************************************************)
(* Location codec                                                          *)
(***************************************************************************)

CallLocationToString ==
  /\ Fresh
  /\ \E l \in Locations :
       /\ loc' = l
       /\ locStr' = LocationToString(l)
  /\ locRes' = Nil
  /\ UNCHANGED <<wpVars, rpVars, wVars>>

\* StringToLocation on what LocationToString returned
CallStringToLocation ==
  /\ loc # Nil
  /\ locRes = Nil
  /\ locRes' = StringToLocation(locStr)
  /\ UNCHANGED <<loc, locStr, wpVars, rpVars, wVars>>

\* StringToLocation on any other string
CallStringToLocationOn ==
  /\ Fresh
  /\ loc' = Nil
  /\ \E s \in LocationInputs :
       /\ locStr' = s
       /\ locRes' = StringToLocation(s)
  /\ UNCHANGED <<wpVars, rpVars, wVars>>

(***************************************************************************)
(* Puzzle text codec                                                       *)
(***************************************************************************)

Wrote(p, r) ==
  /\ puzzle' = p
  /\ emitted' = r.emitted
  /\ stream' = r.out
  /\ writeFailed' = r.failed
  /\ wpRet' = IF r.err THEN "err" ELSE "nil"
  /\ UNCHANGED <<locVars, rpVars, wVars>>

CallWritePuzzle ==
  /\ Fresh
  /\ \E p \in Puzzles : \E k \in 0..MaxFailAt : Wrote(p, WritePuzzle(p, k))

CallWritePuzzleFile ==
  /\ Fresh
  /\ \E p \in Puzzles : \E k \in 0..MaxFailAt : \E opened \in BOOLEAN :
       Wrote(p, WritePuzzleFile(opened, p, k))

\* ReadPuzzle up to its loop, on a reader over what WritePuzzle wrote, all
\* of its writes having succeeded
ReadPuzzleWritten ==
  /\ wpRet = "nil"
  /\ ~writeFailed
  /\ rp = "idle"
  /\ rp' = "running"
  /\ rpSrc' = "written"
  /\ unread' = stream
  /\ consumed' = <<>>
  /\ acc' = EmptyPuzzle
  /\ rpRet' = Nil
  /\ readFailed' = FALSE
  /\ UNCHANGED <<locVars, wpVars, wVars>>

\* ReadPuzzle up to its loop, on any other reader
ReadPuzzleInput ==
  /\ Fresh
  /\ rp' = "running"
  /\ rpSrc' = "input"
  /\ unread' = <<>>
  /\ consumed' = <<>>
  /\ acc' = EmptyPuzzle
  /\ rpRet' = Nil
  /\ readFailed' = FALSE
  /\ UNCHANGED <<locVars, wpVars, wVars>>

\* scanner.Scan() returned true with this token: one iteration of the loop
Iterate(token, rest) ==
  /\ unread' = rest
  /\ consumed' = Append(consumed, token)
  /\ \E o \in LoopBody(acc, token) :
       /\ rp' = CASE o.kind = "ok" -> "running"
                  [] o.kind = "exit" -> "exited"
                  [] o.kind = "panic" -> "panicked"
       /\ acc' = IF o.kind = "ok" THEN o.val ELSE acc
  /\ UNCHANGED <<rpSrc, rpRet, readFailed, locVars, wpVars, wVars>>

ReadPuzzleScanWritten ==
  /\ rp = "running"
  /\ rpSrc = "written"
  /\ LET t == ScanLines(unread)
     IN t.more /\ Iterate(t.token, t.rest)

\* The reader supplies one more line, ended by \n or by \r\n
ReadPuzzleScanInput ==
  /\ rp = "running"
  /\ rpSrc = "input"
  /\ Len(consumed) < MaxLines
  /\ \E l \in LinePool : \E eol \in {<<NL>>, <<CR, NL>>} :
       LET t == ScanLines(l \o eol)
       IN Iterate(t.token, t.rest)

\* scanner.Scan() returned false, at the end of the input or because the
\* reader returned an error; scanner.Err() is not looked at, and the
\* function returns the Puzzle of its locals and a nil error.
ReadPuzzleReturn ==
  /\ rp = "running"
  /\ \E failed \in BOOLEAN :
       /\ failed \/ rpSrc = "input" \/ ~ScanLines(unread).more
       /\ readFailed' = failed
  /\ rp' = "returned"
  /\ rpRet' = [puzzle |-> acc, err |-> FALSE]
  /\ UNCHANGED <<rpSrc, unread, consumed, acc, locVars, wpVars, wVars>>

(***************************************************************************)
(* World framing codec                                                     *)
(***************************************************************************)

WroteWorld(w, r, k) ==
  /\ world' = w
  /\ file' = r.out
  /\ fileFailed' = (k <= 2)
  /\ wwRet' = IF r.err THEN "err" ELSE "nil"
  /\ rwRes' = Nil
  /\ UNCHANGED <<locVars, wpVars, rpVars>>

CallWriteWorld ==
  /\ Fresh
  /\ \E w \in Worlds : \E k \in 1..3 : WroteWorld(w, WriteWorld(w, k), k)

CallWriteWorldFile ==
  /\ Fresh
  /\ \E w \in Worlds : \E k \in 1..3 : \E opened \in BOOLEAN :
       WroteWorld(w, WriteWorldFile(opened, w, k), IF opened THEN k ELSE 3)

\* ReadWorldFile on the file WriteWorldFile left
CallReadWorldFile ==
  /\ wwRet # "none"
  /\ rwRes = Nil
  /\ \E ok \in BOOLEAN : \E slack \in 0..MaxSlack :
       rwRes' = ReadWorldFile(ok, file, Len(file) + slack)
  /\ UNCHANGED <<world, file, fileFailed, wwRet, locVars, wpVars, rpVars>>

\* ReadWorldFile on any other file
CallReadWorldFileOn ==
  /\ Fresh
  /\ world' = Nil
  /\ fileFailed' = FALSE
  /\ wwRet' = "none"
  /\ \E ok \in BOOLEAN : \E bytes \in FileInputs : \E slack \in 0..MaxSlack :
       /\ file' = bytes
       /\ rwRes' = ReadWorldFile(ok, bytes, Len(bytes) + slack)
  /\ UNCHANGED <<locVars, wpVars, rpVars>>

Next ==
  \/ CallLocationToString
  \/ CallStringToLocation
  \/ CallStringToLocationOn
  \/ CallWritePuzzle
  \/ CallWritePuzzleFile
  \/ ReadPuzzleWritten
  \/ ReadPuzzleInput
  \/ ReadPuzzleScanWritten
  \/ ReadPuzzleScanInput
  \/ ReadPuzzleReturn
  \/ CallWriteWorld
  \/ CallWriteWorldFile
  \/ CallReadWorldFile
  \/ CallReadWorldFileOn

Spec == Init /\ [][Next]_vars
(***************************************************************************)
(* Properties                                                              *)
(***************************************************************************)

\* The tag of a line, and the lines of consumed that carry it
TagOf(line) == Split(line, Colon)[1]

IsSkipped(line) ==
  line = <<>> \/ line[1] = Hash \/ TagOf(line) \notin Tags

IsTagged(line, tag) == line # <<>> /\ line[1] # Hash /\ TagOf(line) = tag

LinesOf(lines, tag) ==
  LET test(l) == IsTagged(l, tag) IN SelectSeq(lines, test)

\* A location string no reading of 1 to 4 integers fits
BadLocation(s) ==
  LET parts == Split(s, Comma)
  IN Len(parts) \notin 1..4 \/ \E i \in 1..Len(parts) : Atoi(parts[i]).err

\* A line with a recognised tag and a malformed integer or location field
HasBadField(line) ==
  /\ ~IsSkipped(line)
  /\ LET p == Split(line, Colon)
     IN \/ \E i \in IntFields(p[1]) : i <= Len(p) /\ Atoi(p[i]).err
        \/ \E i \in LocFields(p[1]) : i <= Len(p) /\ BadLocation(p[i])

\* C1: reading back what WritePuzzle wrote of a Puzzle without ':' or ','
\* in its free text ends in a return, without an error, of a Puzzle equal to
\* the one written, field by field and in the same order within each kind.
C1_PuzzleRoundTrip ==
  rpSrc = "written" =>
    /\ rp \notin {"exited", "panicked"}
    /\ rp = "returned" /\ ~readFailed =>
         rpRet.err = FALSE /\ rpRet.puzzle = puzzle

\* C2: StringToLocation(LocationToString(l)) = l for every Location l, and
\* LocationToString writes 3 comma-separated fields when W = 0, 4 otherwise.
C2_LocationRoundTrip ==
  loc # Nil =>
    /\ Len(Split(locStr, Comma)) = IF loc.W = 0 THEN 3 ELSE 4
    /\ locRes # Nil => locRes = Ok(loc)

C2_Witness ==
  /\ loc # Nil /\ locRes # Nil
  /\ loc.W < 0 /\ loc.X = 0 /\ loc.Y = 2147483647 /\ loc.Z = -2147483647 - 1

\* C3: a malformed location or integer field never ends the process: the
\* call returns, with an error.
C3_MalformedIsError ==
  /\ locRes # Nil /\ BadLocation(locStr) => locRes.kind = "err"
  /\ rp # "exited"

\* C4: ReadPuzzle fails only on a malformed location or integer field or on
\* an error of its reader, which it reports; on every other input, a tag
\* with fewer fields than its arity included, it returns a Puzzle.
C4_ReadPuzzleFailsOnlyOnBadFields ==
  /\ rp \in {"exited", "panicked"} => HasBadField(consumed[Len(consumed)])
  /\ rp = "returned" => (rpRet.err <=> readFailed)

\* C5: when WriteWorld succeeds the stream holds the varint of the length n
\* of the serialized World and then its n bytes, nothing else, and
\* ReadWorldFile on a file of these bytes returns the World written.
C5_WorldFraming ==
  wwRet = "nil" =>
    /\ LET d == DecodeVarint(file)
       IN /\ d.n > 0
          /\ d.x = Len(Marshal(world))
          /\ Take(file, d.n) = EncodeVarint(d.x)
          /\ Drop(file, d.n) = Marshal(world)
    /\ rwRes # Nil /\ ~rwRes.io =>
         rwRes.kind = "ok" /\ rwRes.world = world /\ ~rwRes.beyond

C5_Witness ==
  /\ wwRet = "nil" /\ rwRes # Nil /\ rwRes.kind = "ok"
  /\ Len(Marshal(world)) >= 128

\* C6: ReadWorldFile returns an error, without a panic and without taking
\* bytes beyond the contents of the file, when the varint cannot be decoded
\* or the size it gives exceeds the bytes that follow it.
C6_FramingError ==
  rwRes # Nil /\ ~rwRes.io =>
    LET d == DecodeVarint(file)
    IN d.n = 0 \/ d.x > Len(file) - d.n =>
         rwRes.kind = "err" /\ ~rwRes.beyond

\* C7: WritePuzzle and WritePuzzleFile return an error when a write to the
\* underlying stream failed.
C7_WriteFailureReturned == writeFailed => wpRet = "err"

Rank(tag) ==
  CASE tag = TagTarget -> 1
    [] tag = TagOutline -> 2
    [] tag = TagSky -> 3
    [] tag = TagDescription -> 4
    [] tag = TagBlock -> 5
    [] tag = TagGoal -> 6
    [] tag = TagPortal -> 7
    [] tag = TagSphere -> 8
    [] tag = TagScenery -> 9
    [] tag = TagDialog -> 10
    [] OTHER -> 0

\* The second field of each record
NamesOf(records) == [i \in 1..Len(records) |-> Split(records[i], Colon)[2]]

Names(es) == [i \in 1..Len(es) |-> es[i].Name]

\* C8: WritePuzzle emits one target record first, then outline (iff there
\* is an Outline), sky, description (iff it is not empty), block, goal,
\* portal, sphere, scenery and dialog records, one for each element and in
\* the stored order within each kind.
C8_RecordOrder ==
  wpRet = "nil" /\ rp = "idle" =>
    /\ Len(emitted) >= 1
    /\ emitted[1] = TagTarget \o <<Colon>> \o Itoa(puzzle.Target)
    /\ Len(LinesOf(emitted, TagTarget)) = 1
    /\ \A i \in 1..(Len(emitted) - 1) :
         Rank(TagOf(emitted[i])) <= Rank(TagOf(emitted[i + 1]))
    /\ \A i \in 1..Len(emitted) : Rank(TagOf(emitted[i])) > 0
    /\ LinesOf(emitted, TagOutline) =
         IF puzzle.Outline # Nil THEN <<OutlineRecord(puzzle.Outline)>>
         ELSE <<>>
    /\ LinesOf(emitted, TagDescription) =
         IF puzzle.Description # <<>>
         THEN <<TagDescription \o <<Colon>> \o puzzle.Description>>
         ELSE <<>>
    /\ NamesOf(LinesOf(emitted, TagSky)) = Names(puzzle.Sky)
    /\ NamesOf(LinesOf(emitted, TagBlock)) = Names(puzzle.Block)
    /\ NamesOf(LinesOf(emitted, TagGoal)) = Names(puzzle.Goal)
    /\ NamesOf(LinesOf(emitted, TagPortal)) = Names(puzzle.Portal)
    /\ NamesOf(LinesOf(emitted, TagSphere)) = Names(puzzle.Sphere)
    /\ NamesOf(LinesOf(emitted, TagScenery)) = Names(puzzle.Scenery)
    /\ NamesOf(LinesOf(emitted, TagDialog)) = Names(puzzle.Dialog)

C8_Witness ==
  /\ wpRet = "nil"
  /\ puzzle.Outline # Nil /\ puzzle.Description # <<>> /\ puzzle.Target = 0
  /\ Len(puzzle.Sky) = 1 /\ Len(puzzle.Dialog) = 1
  /\ Len(emitted) = 5

\* What the lines read so far decode to, tag by tag
Parts(lines) == [i \in 1..Len(lines) |-> Split(lines[i], Colon)]

Skies(ps) == [i \in 1..Len(ps) |-> Sky(ps[i])]
Placeds(ps) == [i \in 1..Len(ps) |-> Placed(ps[i])]
Portals(ps) == [i \in 1..Len(ps) |-> Portal(ps[i])]
Dialogs(ps) == [i \in 1..Len(ps) |-> Dialog(ps[i])]

Decoded(lines) ==
  LET kept(l) == l # <<>> /\ l[1] # Hash
      ps == Parts(SelectSeq(lines, kept))
      of(tag) == LET tagged(p) == p[1] = tag IN SelectSeq(ps, tagged)
      last(tag) == of(tag)[Len(of(tag))]
  IN [Outline |-> IF of(TagOutline) = <<>> THEN Nil
                  ELSE Outline(last(TagOutline)),
      Sky |-> Skies(of(TagSky)),
      Block |-> Placeds(of(TagBlock)),
      Goal |-> Placeds(of(TagGoal)),
      Portal |-> Portals(of(TagPortal)),
      Sphere |-> Placeds(of(TagSphere)),
      Description |-> IF of(TagDescription) = <<>> THEN <<>>
                      ELSE last(TagDescription)[2],
      Target |-> IF of(TagTarget) = <<>> THEN 0
                 ELSE Atoi(last(TagTarget)[2]).val,
      Scenery |-> Placeds(of(TagScenery)),
      Dialog |-> Dialogs(of(TagDialog))]

\* C9: over well-formed lines, Description, Target and Outline are those of
\* the last line of their tag (the defaults when there is none), and each
\* of Sky, Block, Goal, Portal, Sphere, Scenery and Dialog holds one element
\* for each line of its tag, in the order of the lines, however the lines of
\* different tags are interleaved.
C9_LastWinsAndOrder ==
  /\ rp = "running" => acc = Decoded(consumed)
  /\ rp = "returned" => rpRet.puzzle = Decoded(consumed)

C9_WitnessLastWins ==
  /\ rp = "returned" /\ rpSrc = "input" /\ Len(consumed) = 3
  /\ IsTagged(consumed[1], TagDescription)
  /\ IsTagged(consumed[2], TagBlock)
  /\ IsTagged(consumed[3], TagDescription)
  /\ consumed[1] # consumed[3]

C9_Witness ==
  /\ rp = "returned" /\ rpSrc = "input" /\ Len(consumed) = 3
  /\ IsTagged(consumed[1], TagBlock)
  /\ IsTagged(consumed[2], TagSky)
  /\ IsTagged(consumed[3], TagBlock)
  /\ consumed[1] # consumed[3]

\* C10: a line that is blank, starts with '#' or carries an unrecognized tag
\* changes none of the locals of ReadPuzzle and the loop goes on; an input
\* of such lines only decodes to the empty Puzzle, without an error.
C10_SkippedLines ==
  /\ [][(consumed' # consumed /\ IsSkipped(consumed'[Len(consumed')]))
          => (acc' = acc /\ rp' = "running")]_vars
  /\ [](rp = "returned" /\ (\A i \in 1..Len(consumed) : IsSkipped(consumed[i]))
          => rpRet = [puzzle |-> EmptyPuzzle, err |-> FALSE])

C10_Witness ==
  /\ rp = "returned" /\ Len(consumed) = 3
  /\ IsTagged(consumed[1], TagBlock)
  /\ IsSkipped(consumed[2]) /\ consumed[2] # <<>> /\ consumed[2][1] # Hash
  /\ IsTagged(consumed[3], TagSky)
====
